---- MODULE Spec2Model ----
(***************************************************************************)
(* Employee Search RAG application (gSearch).                              *)
(*                                                                         *)
(* The model follows one server process from module import (corpus load,   *)
(* generation-service check, document expansion, index build and save) to  *)
(* the serving of /chat requests: app/api/main.py with app/services/.      *)
(*                                                                         *)
(* Texts are modelled by their fields and their length in characters; the  *)
(* embedding model, the vector store and the language model are external:  *)
(* the embedding similarity is a deterministic fake (Sim), the language    *)
(* model's reply is a nondeterministic choice.                             *)
(***************************************************************************)
EXTENDS Integers, Sequences, FiniteSets, TLC

VARIABLES
    promptKw,   \* TRUE when get_qa_chain was called with the keyword prompt=
    source,     \* the backing data file: [kind, employees]
    ollama,     \* what GET /api/tags did at start-up, "" before the check
    pc,         \* position of the module import
    err,        \* the exception that ended the import, "" when none
    employees,  \* the module-level employees list
    loaded,     \* the list held by get_retriever / build_vector_store
    idx,        \* how many records the expansion loop has passed
    docs,       \* the docs list under construction
    db,         \* the in-memory FAISS store: [built, docs]
    saved,      \* the copy at VECTOR_STORE_PATH: [exists, docs]
    qa_chain,   \* the module-level chain: [built, docs, search_type, k, threshold]
    rebuild,    \* TRUE when this run started with a saved copy on disk
    stale,      \* TRUE when that copy held a unit of a record no longer in the file
    search,     \* the last /employees/search request and its response
    req         \* the /chat requests in flight, one slot per client

vars == <<promptKw, source, ollama, pc, err, employees, loaded, idx, docs, db,
          saved, qa_chain, rebuild, stale, search, req>>

-----------------------------------------------------------------------------
(* Bounds of the model *)

\* A corpus holds at most MaxRecords records.
MaxRecords == 2

\* Length in characters of the long project description LongText stands for
\* (some thousand tokens, whatever the tokenizer).
LongTextLen == 20000

-----------------------------------------------------------------------------
(* Settings *)

\* Scores are tenths: 3 is 0.3.
SIMILARITY_THRESHOLD == 3
MAX_RESULTS == 5
LLM_CONTEXT_SIZE == 4096

-----------------------------------------------------------------------------
(* Employee records as they come out of json.load.  defect names the one   *)
(* field of the record that is absent ("missing") or null ("null"), if any;*)
(* the value stored under that field is then not read.                     *)

NoDefect == [field |-> "", kind |-> "none"]

LongText == "Atlas"

Ana == [id |-> 1, name |-> "Ana", skills |-> <<"Go", "SQL">>,
        experience_years |-> 4, projects |-> <<"Billing">>,
        availability |-> "available", defect |-> NoDefect]

\* lists the same skill twice, has no project
Bo == [id |-> 2, name |-> "Bo", skills |-> <<"Go", "Go">>,
       experience_years |-> 12, projects |-> <<>>,
       availability |-> "busy", defect |-> NoDefect]

\* shares Ana's id, has no skill, one very long project description
Cy == [id |-> 1, name |-> "Cy", skills |-> <<>>,
       experience_years |-> 7, projects |-> <<LongText>>,
       availability |-> "available", defect |-> NoDefect]

\* "name": null
Di == [id |-> 3, name |-> "", skills |-> <<"SQL">>,
       experience_years |-> 2, projects |-> <<"Billing">>,
       availability |-> "busy", defect |-> [field |-> "name", kind |-> "null"]]

\* no "skills" key
Ed == [id |-> 4, name |-> "Ed", skills |-> <<>>,
       experience_years |-> 3, projects |-> <<"Billing">>,
       availability |-> "available",
       defect |-> [field |-> "skills", kind |-> "missing"]]

RecordPool == {Ana, Bo, Cy, Di, Ed}

Fields == {"id", "name", "skills", "experience_years", "projects", "availability"}

Missing(emp, f) == emp.defect = [field |-> f, kind |-> "missing"]
IsNull(emp, f) == emp.defect = [field |-> f, kind |-> "null"]
Valid(emp) == emp.defect = NoDefect

\* The contents the data file can have.
\*   missing     no file at the path
\*   not_json    the file is empty or is not JSON
\*   no_key      JSON without the "employees" key
\*   empty_list  "employees": []
\*   not_list    "employees" is a non-empty value that is no list of records
\*   records     "employees" is a non-empty list of objects
Corpora == UNION {[1..n -> RecordPool] : n \in 1..MaxRecords}

Sources ==
    {[kind |-> k, employees |-> <<>>] :
        k \in {"missing", "not_json", "no_key", "empty_list", "not_list"}}
    \cup {[kind |-> "records", employees |-> c] : c \in Corpora}

-----------------------------------------------------------------------------
(* Strings by their length *)

StrLen(s) == IF s = LongText THEN LongTextLen ELSE Len(s)

\* len(str(n)) for a non-negative integer
DecLen(n) == IF n < 10 THEN 1 ELSE IF n < 100 THEN 2 ELSE 3

RECURSIVE SumLen(_)
SumLen(ss) == IF ss = <<>> THEN 0 ELSE StrLen(Head(ss)) + SumLen(Tail(ss))

\* len(', '.join(ss))
JoinLen(ss) == IF ss = <<>> THEN 0 ELSE SumLen(ss) + 2 * (Len(ss) - 1)

\* ss[:n]
Take(ss, n) == SubSeq(ss, 1, IF Len(ss) < n THEN Len(ss) ELSE n)

\* str() of a scalar field inside an f-string: null renders as "None"
NameLen(emp) == IF IsNull(emp, "name") THEN 4 ELSE StrLen(emp.name)
AvailLen(emp) == IF IsNull(emp, "availability") THEN 4 ELSE StrLen(emp.availability)
IdLen(emp) == IF IsNull(emp, "id") THEN 4 ELSE DecLen(emp.id)
ExpLen(emp) == IF IsNull(emp, "experience_years") THEN 4 ELSE DecLen(emp.experience_years)

\* Literal characters of the three templates of services/retriever_service.py.
ProfileTemplateLen == 281
SkillTemplateLen == 91
ProjectTemplateLen == 77

-----------------------------------------------------------------------------
(* load_employee_docs *)

\* The outcome of load_employee_docs on a source: [ok, error, shape, data].
\* No record is looked at: whatever non-empty value sits under "employees"
\* is returned as it is.
load_employee_docs(src) ==
    CASE src.kind = "missing" ->
            [ok |-> FALSE, error |-> "FileNotFoundError", shape |-> "none", data |-> <<>>]
      [] src.kind = "not_json" ->
            [ok |-> FALSE, error |-> "JSONDecodeError", shape |-> "none", data |-> <<>>]
      [] src.kind = "no_key" ->
            [ok |-> FALSE, error |-> "KeyError", shape |-> "none", data |-> <<>>]
      [] src.kind = "empty_list" ->
            [ok |-> FALSE, error |-> "ValueError", shape |-> "none", data |-> <<>>]
      [] src.kind = "not_list" ->
            \* a non-empty string or object is truthy and has a len()
            [ok |-> TRUE, error |-> "", shape |-> "other", data |-> <<>>]
      [] OTHER ->
            [ok |-> TRUE, error |-> "", shape |-> "list", data |-> src.employees]

-----------------------------------------------------------------------------
(* Document expansion (get_retriever, lines 105-128) *)

\* str(emp['name']) inside an f-string
NameText(emp) == IF IsNull(emp, "name") THEN "None" ELSE emp.name

Range(ss) == {ss[i] : i \in 1..Len(ss)}

\* format_employee: the length of the profile text
format_employee_len(emp) ==
    ProfileTemplateLen + IdLen(emp) + NameLen(emp) + JoinLen(emp.skills)
    + ExpLen(emp) + JoinLen(emp.projects) + AvailLen(emp)
    + JoinLen(Take(emp.skills, 3)) + ExpLen(emp) + AvailLen(emp)
    + JoinLen(emp.projects)

\* main_doc of get_retriever.  terms are the words of the text, focus the one
\* the unit is about.
ProfileDoc(emp) ==
    [type |-> "employee_profile", id |-> emp.id, name |-> NameText(emp),
     meta |-> "", focus |-> NameText(emp),
     terms |-> {NameText(emp), emp.availability} \cup Range(emp.skills)
                  \cup Range(emp.projects),
     len |-> format_employee_len(emp)]

create_skill_document(emp, skill) ==
    [type |-> "skill_specific", id |-> emp.id, name |-> NameText(emp),
     meta |-> skill, focus |-> skill,
     terms |-> {NameText(emp), skill, emp.availability} \cup Range(emp.projects),
     len |-> SkillTemplateLen + NameLen(emp) + StrLen(skill) + ExpLen(emp)
             + StrLen(skill) + JoinLen(emp.projects) + AvailLen(emp)]

create_project_document(emp, project) ==
    [type |-> "project_specific", id |-> emp.id, name |-> NameText(emp),
     meta |-> project, focus |-> project,
     terms |-> {NameText(emp), project, emp.availability} \cup Range(emp.skills),
     len |-> ProjectTemplateLen + NameLen(emp) + StrLen(project)
             + JoinLen(emp.skills) + ExpLen(emp) + AvailLen(emp)]

\* The exception one pass of the loop raises on a record, "" when none: a
\* subscript of an absent key, or ', '.join of null.
RecordError(emp) ==
    IF \E f \in Fields : Missing(emp, f) THEN "KeyError"
    ELSE IF IsNull(emp, "skills") \/ IsNull(emp, "projects") THEN "TypeError"
    ELSE ""

SkillDocs(emp) ==
    [i \in 1..Len(emp.skills) |-> create_skill_document(emp, emp.skills[i])]

ProjectDocs(emp) ==
    [i \in 1..Len(emp.projects) |-> create_project_document(emp, emp.projects[i])]

\* A variant that makes one skill document per distinct skill.
RECURSIVE Distinct(_)
Distinct(ss) ==
    IF ss = <<>> THEN <<>>
    ELSE LET rest == Distinct(SubSeq(ss, 1, Len(ss) - 1))
         IN  IF ss[Len(ss)] \in Range(rest) THEN rest ELSE Append(rest, ss[Len(ss)])

ExpandRecordDistinctSkills(emp) ==
    <<ProfileDoc(emp)>>
    \o [i \in 1..Len(Distinct(emp.skills)) |->
           create_skill_document(emp, Distinct(emp.skills)[i])]
    \o ProjectDocs(emp)

\* A variant that appends the project documents before the skill documents.
ExpandRecordProjectsFirst(emp) ==
    <<ProfileDoc(emp)>> \o ProjectDocs(emp) \o SkillDocs(emp)

\* One pass of "for emp in employees": the documents appended for emp.
ExpandRecord(emp) == <<ProfileDoc(emp)>> \o SkillDocs(emp) \o ProjectDocs(emp)

RECURSIVE ExpandAll(_)
ExpandAll(emps) ==
    IF emps = <<>> THEN <<>> ELSE ExpandRecord(Head(emps)) \o ExpandAll(Tail(emps))

-----------------------------------------------------------------------------
(* Retrieval (the retriever of get_retriever, lines 141-149) *)

\* The fake embedding similarity of a query and a unit, in tenths.  Identical
\* texts get identical scores.
Sim(q, u) == IF q = u.focus THEN 9 ELSE IF q \in u.terms THEN 6 ELSE 1

\* The best of the positions idxs of ds for q: highest score, first inserted.
Best(ds, q, idxs) ==
    CHOOSE i \in idxs : \A j \in idxs :
        \/ Sim(q, ds[i]) > Sim(q, ds[j])
        \/ Sim(q, ds[i]) = Sim(q, ds[j]) /\ i <= j

RECURSIVE TopK(_, _, _, _)
TopK(ds, q, idxs, k) ==
    IF k = 0 \/ idxs = {} THEN <<>>
    ELSE LET b == Best(ds, q, idxs)
         IN  <<[doc |-> ds[b], score |-> Sim(q, ds[b])]>>
             \o TopK(ds, q, idxs \ {b}, k - 1)

\* db.similarity_search_with_relevance_scores(q, k)
similarity_search(ds, q, k) == TopK(ds, q, 1..Len(ds), k)

AboveFloor(hit, floor) == hit.score >= floor

\* A variant with search_type "similarity": the k best, whatever their score.
RetrieveNoThreshold(chain, q) == similarity_search(chain.docs, q, chain.k)

\* search_type "similarity_score_threshold": the k best, those below the
\* threshold dropped.
Retrieve(chain, q) ==
    SelectSeq(similarity_search(chain.docs, q, chain.k),
              LAMBDA hit : AboveFloor(hit, chain.threshold))

\* db.as_retriever(...) of get_retriever
as_retriever(ds) ==
    [built |-> TRUE, docs |-> ds, search_type |-> "similarity_score_threshold",
     k |-> MAX_RESULTS, threshold |-> SIMILARITY_THRESHOLD]

NoChain ==
    [built |-> FALSE, docs |-> <<>>, search_type |-> "", k |-> 0, threshold |-> 0]

-----------------------------------------------------------------------------
(* Context (create_stuff_documents_chain, get_qa_chain lines 100-107) *)

RECURSIVE SumDocLen(_)
SumDocLen(hits) ==
    IF hits = <<>> THEN 0 ELSE Head(hits).doc.len + SumDocLen(Tail(hits))

\* The page contents of the retrieved documents joined by a blank line; no
\* document is dropped or cut.
ContextLen(hits) ==
    IF hits = <<>> THEN 0 ELSE SumDocLen(hits) + 2 * (Len(hits) - 1)

-----------------------------------------------------------------------------
(* State *)

Clients == {"c1", "c2"}

\* "" is the empty query; "Zumba" is in no record.
Queries == {"", "Go", "Atlas", "available", "Zumba"}

OllamaStates == {"up", "refused", "non200", "timeout"}

\* What the language model can do with one prompt: fail, or answer with a
\* text that says no employee matches, or with one that names employees.
Replies == {"error", "no_match", "names_employees"}

NoLoad == [ok |-> FALSE, error |-> "", shape |-> "none", data |-> <<>>]
NoStore == [built |-> FALSE, docs |-> <<>>]
NoCopy == [exists |-> FALSE, docs |-> <<>>]
NoResponse == [status |-> 0, answer |-> "", detail |-> ""]

\* An optional query parameter: None when absent, else the value.
None == <<>>
Some(v) == <<v>>

NoParams == [name |-> None, skills |-> None, min_experience |-> None,
             availability |-> None]

NoSearch ==
    [asked |-> FALSE, params |-> NoParams, status |-> 0, total |-> 0,
     employees |-> <<>>]

\* The ids of the records in the data file.
CorpusIds(src) == {src.employees[n].id : n \in 1..Len(src.employees)}

Idle ==
    [stage |-> "idle", query |-> "", evidence |-> <<>>, context_len |-> 0,
     llm_calls |-> 0, outcome |-> "", response |-> NoResponse]

Init ==
    /\ promptKw = FALSE
    /\ source \in Sources
    /\ ollama = ""
    /\ pc = "load_corpus"
    /\ err = ""
    /\ employees = NoLoad
    /\ loaded = NoLoad
    /\ idx = 0
    /\ docs = <<>>
    /\ db = NoStore
    /\ saved = NoCopy
    /\ qa_chain = NoChain
    /\ rebuild = FALSE
    /\ stale = FALSE
    /\ search = NoSearch
    /\ req = [c \in Clients |-> Idle]

-----------------------------------------------------------------------------
(* Module import of app/api/main.py *)

Fail(e) == pc' = "failed" /\ err' = e

\* api/main.py line 40: employees = load_employee_docs()
LoadCorpus ==
    /\ pc = "load_corpus"
    /\ LET r == load_employee_docs(source)
       IN  IF r.ok
           THEN employees' = r /\ pc' = "get_qa_chain" /\ err' = err
           ELSE employees' = employees /\ Fail(r.error)
    /\ UNCHANGED <<promptKw, source, ollama, loaded, idx, docs, db, saved,
                   qa_chain, rebuild, stale, search, req>>

\* The call of get_qa_chain, with the keyword prompt= as api/main.py line 43
\* writes it, or without argument as def get_qa_chain() declares it.  With a
\* keyword the function does not take, the call raises TypeError before the
\* body runs.
CallGetQaChain ==
    /\ pc = "get_qa_chain"
    /\ \E kw \in BOOLEAN :
          /\ promptKw' = kw
          /\ IF kw THEN Fail("TypeError") ELSE pc' = "check_ollama" /\ err' = err
    /\ UNCHANGED <<source, ollama, employees, loaded, idx, docs, db,
                   saved, qa_chain, rebuild, stale, search, req>>

\* A variant that reports the service reachable whatever it answers.
check_ollama_connection_unchecked(o) == [raised |-> "", value |-> TRUE]

\* check_ollama_connection: True on status 200, False on another status or on
\* requests.exceptions.ConnectionError; any other exception (a read timeout)
\* passes through.
check_ollama_connection(o) ==
    CASE o = "up" -> [raised |-> "", value |-> TRUE]
      [] o = "non200" -> [raised |-> "", value |-> FALSE]
      [] o = "refused" -> [raised |-> "", value |-> FALSE]
      [] OTHER -> [raised |-> "Timeout", value |-> FALSE]

\* get_llm
GetLlm ==
    /\ pc = "check_ollama"
    /\ \E o \in OllamaStates :
          /\ ollama' = o
          /\ LET r == check_ollama_connection(o)
             IN  IF r.raised # "" THEN Fail(r.raised)
                 ELSE IF ~r.value THEN Fail("ConnectionError")
                 ELSE pc' = "load_docs" /\ err' = err
    /\ UNCHANGED <<promptKw, source, employees, loaded, idx, docs, db,
                   saved, qa_chain, rebuild, stale, search, req>>

\* get_retriever line 101: employees = load_employee_docs()
RetrieverLoad ==
    /\ pc = "load_docs"
    /\ LET r == load_employee_docs(source)
       IN  IF r.ok
           THEN loaded' = r /\ pc' = "expand" /\ err' = err
           ELSE loaded' = loaded /\ Fail(r.error)
    /\ idx' = 0
    /\ docs' = <<>>
    /\ UNCHANGED <<promptKw, source, ollama, employees, db, saved, qa_chain, rebuild, stale, search, req>>

\* One pass of the loop of get_retriever lines 106-128.  Iterating a value
\* that is no list of objects yields strings, and emp['id'] raises TypeError.
ExpandStep ==
    /\ pc = "expand"
    /\ IF loaded.shape # "list"
       THEN Fail("TypeError") /\ UNCHANGED <<idx, docs>>
       ELSE IF idx = Len(loaded.data)
       THEN pc' = "embed" /\ err' = err /\ UNCHANGED <<idx, docs>>
       ELSE LET emp == loaded.data[idx + 1]
            IN  IF RecordError(emp) # ""
                THEN Fail(RecordError(emp)) /\ UNCHANGED <<idx, docs>>
                ELSE /\ docs' = docs \o ExpandRecord(emp)
                     /\ idx' = idx + 1
                     /\ pc' = pc /\ err' = err
    /\ UNCHANGED <<promptKw, source, ollama, employees, loaded, db, saved,
                   qa_chain, rebuild, stale, search, req>>

\* A variant that adds the documents to the copy found on disk.
from_documents_merge(ds) == [built |-> TRUE, docs |-> saved.docs \o ds]

\* line 138: db = FAISS.from_documents(docs, embeddings)
from_documents(ds) == [built |-> TRUE, docs |-> ds]

Embed ==
    /\ pc = "embed"
    /\ db' = from_documents(docs)
    /\ pc' = "save"
    /\ UNCHANGED <<promptKw, source, ollama, err, employees, loaded, idx, docs,
                   saved, qa_chain, rebuild, stale, search, req>>

\* line 139: db.save_local(settings.VECTOR_STORE_PATH)
save_local(store) == [exists |-> TRUE, docs |-> store.docs]

Save ==
    /\ pc = "save"
    /\ saved' = save_local(db)
    /\ pc' = "make_chain"
    /\ UNCHANGED <<promptKw, source, ollama, err, employees, loaded, idx, docs,
                   db, qa_chain, rebuild, stale, search, req>>

\* lines 142-149 and get_qa_chain lines 76-109; the module-level qa_chain is
\* bound and the server starts to accept requests.
MakeChain ==
    /\ pc = "make_chain"
    /\ qa_chain' = as_retriever(db.docs)
    /\ pc' = "serving"
    /\ UNCHANGED <<promptKw, source, ollama, err, employees, loaded, idx, docs,
                   db, saved, rebuild, stale, search, req>>

\* The process ends (it is stopped, or it has failed and exits): its memory
\* is gone, requests in flight with it; the copy on disk stays.
Stop ==
    /\ pc # "stopped"
    /\ pc' = "stopped"
    /\ err' = ""
    /\ employees' = NoLoad
    /\ loaded' = NoLoad
    /\ idx' = 0
    /\ docs' = <<>>
    /\ db' = NoStore
    /\ qa_chain' = NoChain
    /\ req' = [c \in Clients |-> Idle]
    /\ promptKw' = FALSE
    /\ ollama' = ""
    /\ search' = NoSearch
    /\ UNCHANGED <<source, saved, rebuild, stale>>

\* The process is started again, on a data file that may have changed.
Start ==
    /\ pc = "stopped"
    /\ source' \in Sources
    /\ rebuild' = saved.exists
    /\ stale' = (\E i \in 1..Len(saved.docs) : saved.docs[i].id \notin CorpusIds(source'))
    /\ pc' = "load_corpus"
    /\ UNCHANGED <<promptKw, ollama, err, employees, loaded, idx, docs, db, saved,
                   qa_chain, search, req>>

\* A variant in which the server accepts requests while the chain is built.
AcceptingEarly == pc \in {"make_chain", "serving"}

\* Requests are accepted once the import has finished.
Accepting == pc = "serving"

-----------------------------------------------------------------------------
(* POST /chat (api/main.py lines 45-68) *)

\* A variant whose except clause answers with an empty response.
chat_response_swallow(outcome, answer) ==
    [status |-> 200, answer |-> answer, detail |-> ""]

\* The except clause and the return of chat: what the caller receives.
\* HTTPException is an Exception, so the 400 raised for an empty query is
\* caught as well and leaves as a 500.
chat_response(outcome, answer) ==
    CASE outcome = "ok" ->
            [status |-> 200, answer |-> answer, detail |-> ""]
      [] outcome = "empty_query" ->
            [status |-> 500, answer |-> "", detail |-> "400: Query is empty"]
      [] outcome = "retrieval_error" ->
            [status |-> 500, answer |-> "", detail |-> "retrieval failed"]
      [] OTHER ->
            [status |-> 500, answer |-> "", detail |-> "generation failed"]

\* A variant that calls the language model a second time after a failure.
llm_invocations_retry(reply) == IF reply = "error" THEN 2 ELSE 1

\* How often the chain calls the language model for one reply.
llm_invocations(reply) == 1

ChatReceive(c, q) ==
    /\ Accepting
    /\ req[c].stage = "idle"
    /\ req' = [req EXCEPT ![c] = [Idle EXCEPT !.stage = "received", !.query = q]]
    /\ UNCHANGED <<promptKw, source, ollama, pc, err, employees, loaded, idx,
                   docs, db, saved, qa_chain, rebuild, stale, search>>

\* "if not request.query", then the retriever half of qa_chain.invoke.
\* Embedding the query can raise.
ChatRetrieve(c) ==
    /\ req[c].stage = "received"
    /\ \/ /\ req[c].query = ""
          /\ req' = [req EXCEPT ![c].stage = "done",
                                ![c].outcome = "empty_query",
                                ![c].response = chat_response("empty_query", "")]
       \/ /\ req[c].query # ""
          /\ req' = [req EXCEPT ![c].stage = "done",
                                ![c].outcome = "retrieval_error",
                                ![c].response = chat_response("retrieval_error", "")]
       \/ /\ req[c].query # ""
          /\ req' = [req EXCEPT ![c].stage = "retrieved",
                                ![c].evidence = Retrieve(qa_chain, req[c].query)]
    /\ UNCHANGED <<promptKw, source, ollama, pc, err, employees, loaded, idx,
                   docs, db, saved, qa_chain, rebuild, stale, search>>

\* The document-chain half of qa_chain.invoke and the end of the handler.
ChatGenerate(c) ==
    /\ req[c].stage = "retrieved"
    /\ \E reply \in Replies :
          LET outcome == IF reply = "error" THEN "generation_error" ELSE "ok"
              answer == IF reply = "error" THEN "" ELSE reply
          IN  req' = [req EXCEPT
                        ![c].stage = "done",
                        ![c].context_len = ContextLen(req[c].evidence),
                        ![c].llm_calls = @ + llm_invocations(reply),
                        ![c].outcome = outcome,
                        ![c].response = chat_response(outcome, answer)]
    /\ UNCHANGED <<promptKw, source, ollama, pc, err, employees, loaded, idx,
                   docs, db, saved, qa_chain, rebuild, stale, search>>

\* The client has its response; the slot is free again.
ChatClose(c) ==
    /\ req[c].stage = "done"
    /\ req' = [req EXCEPT ![c] = Idle]
    /\ UNCHANGED <<promptKw, source, ollama, pc, err, employees, loaded, idx,
                   docs, db, saved, qa_chain, rebuild, stale, search>>

-----------------------------------------------------------------------------
(* GET /employees/search (api/main.py lines 72-134) *)

\* The characters of the texts that occur in the name, skills and
\* availability fields of the records.
Chars(s) ==
    CASE s = "" -> <<>>
      [] s = "Ana" -> <<"A", "n", "a">>
      [] s = "Bo" -> <<"B", "o">>
      [] s = "Cy" -> <<"C", "y">>
      [] s = "Ed" -> <<"E", "d">>
      [] s = "Go" -> <<"G", "o">>
      [] s = "SQL" -> <<"S", "Q", "L">>
      [] s = "available" -> <<"a", "v", "a", "i", "l", "a", "b", "l", "e">>
      [] s = "busy" -> <<"b", "u", "s", "y">>

\* str.lower(), character by character
LowerChar(c) ==
    CASE c = "A" -> "a" [] c = "B" -> "b" [] c = "C" -> "c" [] c = "D" -> "d"
      [] c = "E" -> "e" [] c = "F" -> "f" [] c = "G" -> "g" [] c = "H" -> "h"
      [] c = "I" -> "i" [] c = "J" -> "j" [] c = "K" -> "k" [] c = "L" -> "l"
      [] c = "M" -> "m" [] c = "N" -> "n" [] c = "O" -> "o" [] c = "P" -> "p"
      [] c = "Q" -> "q" [] c = "R" -> "r" [] c = "S" -> "s" [] c = "T" -> "t"
      [] c = "U" -> "u" [] c = "V" -> "v" [] c = "W" -> "w" [] c = "X" -> "x"
      [] c = "Y" -> "y" [] c = "Z" -> "z"
      [] OTHER -> c

Lower(cs) == [i \in 1..Len(cs) |-> LowerChar(cs[i])]

\* str.strip(): leading and trailing blanks removed
RECURSIVE Strip(_)
Strip(cs) ==
    IF cs = <<>> THEN cs
    ELSE IF Head(cs) = " " THEN Strip(Tail(cs))
    ELSE IF cs[Len(cs)] = " " THEN Strip(SubSeq(cs, 1, Len(cs) - 1))
    ELSE cs

\* str.split(sep): the pieces between the separators, at least one piece
RECURSIVE Split(_, _)
Split(cs, sep) ==
    IF \A i \in 1..Len(cs) : cs[i] # sep THEN <<cs>>
    ELSE LET k == CHOOSE i \in 1..Len(cs) :
                      cs[i] = sep /\ \A j \in 1..(i - 1) : cs[j] # sep
         IN  <<SubSeq(cs, 1, k - 1)>> \o Split(SubSeq(cs, k + 1, Len(cs)), sep)

\* a in b, for strings
IsSubstring(a, b) ==
    \E k \in 0..(Len(b) - Len(a)) : SubSeq(b, k + 1, k + Len(a)) = a

\* "if name:", "if skills:", "if availability:" hold for a non-empty string.
Truthy(opt) == opt # None /\ opt[1] # <<>>

\* emp[f] followed by an operation None does not have (e names it)
FieldError(emp, f, e) ==
    IF Missing(emp, f) THEN "KeyError" ELSE IF IsNull(emp, f) THEN e ELSE ""

\* A list comprehension looks at every record left, in order; the first
\* record on which its test raises ends the handler's try block.
FirstRaised(emps, f, e) ==
    IF \A i \in 1..Len(emps) : FieldError(emps[i], f, e) = "" THEN ""
    ELSE LET k == CHOOSE i \in 1..Len(emps) :
                      /\ FieldError(emps[i], f, e) # ""
                      /\ \A j \in 1..(i - 1) : FieldError(emps[j], f, e) = ""
         IN  FieldError(emps[k], f, e)

Raised(e) == [raised |-> e, list |-> <<>>]

\* lines 98-102
name_filter(prev, name) ==
    IF prev.raised # "" \/ ~Truthy(name) THEN prev
    ELSE IF FirstRaised(prev.list, "name", "AttributeError") # ""
    THEN Raised(FirstRaised(prev.list, "name", "AttributeError"))
    ELSE LET Keeps(emp) == IsSubstring(Lower(name[1]), Lower(Chars(emp.name)))
         IN  [raised |-> "", list |-> SelectSeq(prev.list, Keeps)]

\* skill_list of the skills filter
skill_list(skills) ==
    LET pieces == Split(skills, ",")
    IN  [i \in 1..Len(pieces) |-> Lower(Strip(pieces[i]))]

\* lines 105-110
skills_filter(prev, skills) ==
    IF prev.raised # "" \/ ~Truthy(skills) THEN prev
    ELSE IF FirstRaised(prev.list, "skills", "TypeError") # ""
    THEN Raised(FirstRaised(prev.list, "skills", "TypeError"))
    ELSE LET Keeps(emp) ==
                 \A k \in 1..Len(skill_list(skills[1])) :
                     skill_list(skills[1])[k]
                         \in {Lower(Chars(emp.skills[j])) : j \in 1..Len(emp.skills)}
         IN  [raised |-> "", list |-> SelectSeq(prev.list, Keeps)]

\* lines 114-118
experience_filter(prev, min_experience) ==
    IF prev.raised # "" \/ min_experience = None THEN prev
    ELSE IF FirstRaised(prev.list, "experience_years", "TypeError") # ""
    THEN Raised(FirstRaised(prev.list, "experience_years", "TypeError"))
    ELSE LET Keeps(emp) == emp.experience_years >= min_experience[1]
         IN  [raised |-> "", list |-> SelectSeq(prev.list, Keeps)]

\* lines 121-125
availability_filter(prev, availability) ==
    IF prev.raised # "" \/ ~Truthy(availability) THEN prev
    ELSE IF FirstRaised(prev.list, "availability", "AttributeError") # ""
    THEN Raised(FirstRaised(prev.list, "availability", "AttributeError"))
    ELSE LET Keeps(emp) ==
                 Lower(Chars(emp.availability)) = Lower(availability[1])
         IN  [raised |-> "", list |-> SelectSeq(prev.list, Keeps)]

\* The filters of search_employees, lines 95-125, applied in their order.
filtered_employees(emps, p) ==
    availability_filter(
        experience_filter(
            skills_filter(
                name_filter([raised |-> "", list |-> emps], p.name),
                p.skills),
            p.min_experience),
        p.availability)

\* SearchResponse(total=..., employees=...): every record must make an
\* Employee, all six fields present and of their types.
SearchResponse(emps) ==
    IF \E i \in 1..Len(emps) : ~Valid(emps[i])
    THEN [raised |-> "ValidationError", total |-> 0, employees |-> <<>>]
    ELSE [raised |-> "", total |-> Len(emps), employees |-> emps]

\* search_employees: the response for the parameters p on the module-level
\* employees (the outcome of load_employee_docs).  A value that is no list of
\* objects raises in the first statement that subscripts it; an exception of
\* the try block leaves as a 500.
search_employees(emps, p) ==
    IF emps.shape # "list"
    THEN [asked |-> TRUE, params |-> p, status |-> 500, total |-> 0,
          employees |-> <<>>]
    ELSE LET f == filtered_employees(emps.data, p)
             r == SearchResponse(f.list)
         IN  IF f.raised # "" \/ r.raised # ""
             THEN [asked |-> TRUE, params |-> p, status |-> 500, total |-> 0,
                   employees |-> <<>>]
             ELSE [asked |-> TRUE, params |-> p, status |-> 200,
                   total |-> r.total, employees |-> r.employees]

\* The query strings a client sends.
NameParams == {None, Some(<<>>), Some(<<"A", "N">>), Some(<<"y">>)}
SkillsParams ==
    {None, Some(<<"g", "o">>), Some(<<"G", "o", ",", " ", "S", "Q", "L">>),
     Some(<<"S", "Q", "L", ",", "R", "u", "s", "t">>)}
MinExperienceParams == {None, Some(0), Some(5)}
AvailabilityParams ==
    {None, Some(<<"A", "V", "A", "I", "L", "A", "B", "L", "E">>),
     Some(<<"b", "u", "s", "y">>)}

SearchParams ==
    [name : NameParams, skills : SkillsParams,
     min_experience : MinExperienceParams, availability : AvailabilityParams]

\* One GET /employees/search; the handler works on a copy of employees and
\* assigns to no module-level name.
Search ==
    /\ Accepting
    /\ \E p \in SearchParams : search' = search_employees(employees, p)
    /\ UNCHANGED <<promptKw, source, ollama, pc, err, employees, loaded, idx,
                   docs, db, saved, qa_chain, rebuild, stale, req>>

-----------------------------------------------------------------------------

Next ==
    \/ LoadCorpus
    \/ CallGetQaChain
    \/ GetLlm
    \/ RetrieverLoad
    \/ ExpandStep
    \/ Embed
    \/ Save
    \/ MakeChain
    \/ Stop
    \/ Start
    \/ \E c \in Clients, q \in Queries : ChatReceive(c, q)
    \/ \E c \in Clients : ChatRetrieve(c)
    \/ \E c \in Clients : ChatGenerate(c)
    \/ \E c \in Clients : ChatClose(c)

Spec == Init /\ [][Next]_vars

\* The server with its search endpoint alone.
NextSearch ==
    \/ LoadCorpus
    \/ CallGetQaChain
    \/ GetLlm
    \/ RetrieverLoad
    \/ ExpandStep
    \/ Embed
    \/ Save
    \/ MakeChain
    \/ Stop
    \/ Start
    \/ Search

SpecSearch == Init /\ [][NextSearch]_vars

-----------------------------------------------------------------------------
(* Properties *)

Building == pc \in {"expand", "embed", "save", "make_chain", "serving"}

UnitCount(emp) == 1 + Len(emp.skills) + Len(emp.projects)

\* Units due for the first n records of emps.
RECURSIVE Offset(_, _)
Offset(emps, n) == IF n = 0 THEN 0 ELSE Offset(emps, n - 1) + UnitCount(emps[n])

GroupOf(emps, n) == (Offset(emps, n - 1) + 1)..Offset(emps, n)

OfType(ds, group, t) == {j \in group : ds[j].type = t}

\* C1: every record the expansion loop of get_retriever has passed has
\* exactly 1 + |skills| + |projects| units in docs, all carrying its id, the
\* first of them the profile unit, with one skill unit per listed skill and
\* one project unit per listed project (none when the list is empty); and
\* the index is built from exactly these units.
C1_ExpansionCount ==
    /\ (Building /\ loaded.shape = "list") =>
          /\ Len(docs) = Offset(loaded.data, idx)
          /\ \A n \in 1..idx :
                LET emp == loaded.data[n]
                    group == GroupOf(loaded.data, n)
                IN  /\ Cardinality(group) = UnitCount(emp)
                    /\ docs[Offset(loaded.data, n - 1) + 1].type = "employee_profile"
                    /\ \A j \in group : docs[j].id = emp.id
                    /\ Cardinality(OfType(docs, group, "employee_profile")) = 1
                    /\ Cardinality(OfType(docs, group, "skill_specific"))
                          = Len(emp.skills)
                    /\ Cardinality(OfType(docs, group, "project_specific"))
                          = Len(emp.projects)
    /\ qa_chain.built => qa_chain.docs = docs /\ idx = Len(loaded.data)

\* The index is built from two records, one without skills, one without
\* projects.
C1_Witness ==
    /\ pc = "serving"
    /\ Len(loaded.data) = 2
    /\ \E n \in 1..2 : loaded.data[n].skills = <<>>
    /\ \E n \in 1..2 : loaded.data[n].projects = <<>>
    /\ Len(docs) = 5

\* C2: the evidence retrieved for a query holds at most MAX_RESULTS units,
\* each with a score of at least SIMILARITY_THRESHOLD; the retriever is
\* configured with these two settings.
C2_BoundedAboveFloor ==
    /\ qa_chain.built =>
          qa_chain.k = MAX_RESULTS /\ qa_chain.threshold = SIMILARITY_THRESHOLD
    /\ \A c \in Clients :
          /\ Len(req[c].evidence) <= MAX_RESULTS
          /\ \A i \in 1..Len(req[c].evidence) :
                req[c].evidence[i].score >= SIMILARITY_THRESHOLD

\* More than MAX_RESULTS units score above the floor and MAX_RESULTS are
\* returned, while other units of the index score below it.
C2_Witness ==
    \E c \in Clients :
        /\ req[c].stage = "retrieved"
        /\ Len(req[c].evidence) = MAX_RESULTS
        /\ Cardinality({i \in 1..Len(qa_chain.docs) :
              Sim(req[c].query, qa_chain.docs[i]) >= SIMILARITY_THRESHOLD})
              > MAX_RESULTS
        /\ \E i \in 1..Len(qa_chain.docs) :
              Sim(req[c].query, qa_chain.docs[i]) < SIMILARITY_THRESHOLD

UnitKey(u) == <<u.id, u.type, u.meta>>

\* C3: no evidence set holds two units with the same source record id, unit
\* type and skill or project name.
C3_NoDuplicateUnits ==
    \A c \in Clients :
        \A i, j \in 1..Len(req[c].evidence) :
            i # j => UnitKey(req[c].evidence[i].doc) # UnitKey(req[c].evidence[j].doc)

Done(c) == req[c].stage = "done"

\* The request went through retrieval and reached the language model.
Composed(c) == Done(c) /\ req[c].outcome \in {"ok", "generation_error"}

\* C4: a request whose retrieval found no unit at or above the score floor
\* ends without error, with the answer that no matching employee was found.
C4_EmptyEvidenceNoMatch ==
    \A c \in Clients :
        (Composed(c) /\ req[c].evidence = <<>>) =>
            /\ req[c].response.status = 200
            /\ req[c].response.answer = "no_match"

RecordsOf(r) == IF r.shape = "list" THEN r.data ELSE <<>>

AllValid(emps) == \A i \in 1..Len(emps) : Valid(emps[i])

\* C5: what load_employee_docs returns holds no invalid record, neither in
\* the list the structured search reads nor in the one expansion reads.
C5_AllOrNothing ==
    /\ employees.ok => employees.shape = "list" /\ AllValid(employees.data)
    /\ loaded.ok => loaded.shape = "list" /\ AllValid(loaded.data)

\* The data file is missing, empty or malformed.
BadSource(src) == src.kind # "records" \/ ~AllValid(src.employees)

\* C6: on a missing, empty or malformed source load_employee_docs fails, and
\* the run builds and saves no index.
C6_BadSourceFails ==
    (BadSource(source) /\ pc # "stopped") =>
        /\ ~employees.ok
        /\ ~loaded.ok
        /\ ~db.built
        /\ ~qa_chain.built
        /\ pc \notin {"save", "make_chain", "serving"}

\* C7: the context handed to the language model for a non-empty evidence set
\* is at most LLM_CONTEXT_SIZE long.
C7_ContextWithinBudget ==
    \A c \in Clients :
        (Composed(c) /\ req[c].evidence # <<>>) =>
            req[c].context_len <= LLM_CONTEXT_SIZE

\* C8 as stated: every chat request that has ended has called the language
\* model exactly once.
C8_EveryRequestOneCall ==
    \A c \in Clients : Done(c) => req[c].llm_calls = 1

\* C8 as amended: a chat request calls the language model at most once, and
\* exactly once when its query is not empty and retrieval has succeeded;
\* then either the one call yields the answer of the 200 response, or its
\* failure leaves as an error response, without a second call.
C8_AtMostOneCall ==
    \A c \in Clients :
        /\ req[c].llm_calls <= 1
        /\ Done(c) =>
              /\ req[c].llm_calls = 1 <=> req[c].outcome \in {"ok", "generation_error"}
              /\ req[c].outcome \in {"empty_query", "retrieval_error"}
                    <=> req[c].llm_calls = 0
              /\ req[c].outcome = "ok" =>
                    /\ req[c].response.status = 200
                    /\ req[c].response.answer \in {"no_match", "names_employees"}
              /\ req[c].outcome = "generation_error" =>
                    /\ req[c].response.status = 500
                    /\ req[c].response.answer = ""

\* One request has ended with a generation failure, another with an answer.
C8_Witness ==
    \E c, d \in Clients :
        /\ Done(c) /\ req[c].outcome = "generation_error" /\ req[c].llm_calls = 1
        /\ Done(d) /\ req[d].outcome = "ok" /\ req[d].llm_calls = 1

Failed(c) == Done(c) /\ req[c].outcome \in {"retrieval_error", "generation_error"}

\* C9: a request whose retrieval or generation failed ends with an error
\* response that carries no answer, and so differs from every response that
\* carries one, the "no match" answer included.
C9_ExplicitFailure ==
    \A c \in Clients :
        Failed(c) =>
            /\ req[c].response.status >= 400
            /\ req[c].response.answer = ""
            /\ req[c].response.detail # ""
            /\ \A d \in Clients :
                  (Done(d) /\ req[d].outcome = "ok") =>
                      req[d].response # req[c].response

\* A failed retrieval, and next to it a successful "no match" answer.
C9_Witness ==
    \E c, d \in Clients :
        /\ Done(c) /\ req[c].outcome = "retrieval_error"
        /\ Done(d) /\ req[d].outcome = "ok" /\ req[d].response.answer = "no_match"

\* The complete indexes: the expansions of the corpora that expand.
CompleteIndexes ==
    {ExpandAll(corpus) :
        corpus \in {c \in Corpora : \A i \in 1..Len(c) : RecordError(c[i]) = ""}}

C11_NoStaleUnits ==
    /\ \A c \in Clients :
          \A i \in 1..Len(req[c].evidence) :
              /\ req[c].evidence[i].doc.id \in CorpusIds(source)
              /\ \E j \in 1..Len(qa_chain.docs) :
                    qa_chain.docs[j] = req[c].evidence[i].doc
    /\ db.built =>
          /\ loaded.data = source.employees
          /\ db.docs = ExpandAll(loaded.data)
    /\ qa_chain.built => db.built /\ qa_chain.docs = db.docs
    /\ pc \in {"make_chain", "serving"} => db.built /\ saved.docs = db.docs

\* A query is answered from an index rebuilt over a copy that held units of
\* a record the data file no longer has.
C11_Witness ==
    \E c \in Clients :
        /\ stale
        /\ req[c].stage = "retrieved"
        /\ req[c].evidence # <<>>

\* C12: a connectivity failure of the generation service (connection
\* refused, timeout, reply other than 200) never ends the process: at chain
\* construction the import goes on or reports a ConnectionError without
\* failing, and while a query is answered the caller gets an error response
\* and the server keeps serving.
C12_ConnectivityNeverFatal ==
    /\ ollama \in {"refused", "non200", "timeout"} => pc # "failed"
    /\ \A c \in Clients :
          (Done(c) /\ req[c].outcome = "generation_error") =>
              pc = "serving" /\ req[c].response.status = 500

\* C13: the sequence given to the index is fixed by the corpus alone.  While
\* the loop runs and when the index is built from its result, the sequence
\* holds, for each record passed, in corpus order, the profile unit first,
\* then the unit of each skill at the position of the skill in the record,
\* then the unit of each project at the position of the project, and no
\* other element; the index holds that sequence unchanged.  Every expansion
\* of a corpus, in this run or after a restart, therefore gives the same
\* sequence.
C13_OrderedUnits ==
    /\ (pc \in {"expand", "embed", "save"} /\ loaded.shape = "list") =>
          /\ Len(docs) = Offset(loaded.data, idx)
          /\ \A n \in 1..idx :
                LET emp == loaded.data[n]
                    start == Offset(loaded.data, n - 1)
                IN  /\ docs[start + 1] = ProfileDoc(emp)
                    /\ \A i \in 1..Len(emp.skills) :
                          docs[start + 1 + i]
                             = create_skill_document(emp, emp.skills[i])
                    /\ \A j \in 1..Len(emp.projects) :
                          docs[start + 1 + Len(emp.skills) + j]
                             = create_project_document(emp, emp.projects[j])
    /\ db.built => db.docs = docs /\ idx = Len(loaded.data)

\* Two records have been expanded, one of them with two skills and a project,
\* and the sequence is about to be embedded.
C13_Witness ==
    /\ pc = "embed"
    /\ Len(loaded.data) = 2
    /\ idx = 2
    /\ \E n \in 1..2 :
          /\ Len(loaded.data[n].skills) >= 2
          /\ loaded.data[n].projects # <<>>

\* C14: a chat request with an empty query is answered with status 400 and
\* the detail "Query is empty", and the chain has not been invoked for it.
C14_EmptyQueryIs400 ==
    \A c \in Clients :
        (Done(c) /\ req[c].query = "") =>
            /\ req[c].response.status = 400
            /\ req[c].response.detail = "Query is empty"
            /\ req[c].llm_calls = 0
            /\ req[c].evidence = <<>>

\* C15: with the corpus loaded, the call get_qa_chain(prompt=...) that
\* api/main.py makes at import does not fail on its own: the import goes on
\* to the connectivity check and, the service being reachable, to a chain
\* that serves /chat.
C15_StartupWithPromptCompletes ==
    (promptKw /\ employees.ok) => pc # "failed"

\* C16: in get_qa_chain the connectivity check comes before everything the
\* retriever does.  A step that finds the service unreachable ends the import
\* with nothing loaded by get_retriever, no unit, no store, and the saved
\* copy as it was; the corpus is loaded, units are made and the store is
\* built only in a run whose check has passed; and the saved copy is written
\* only from a store built of the units of every record of the corpus.
C16_CheckBeforeBuild ==
    [][ /\ ollama' \in {"refused", "non200", "timeout"} =>
              /\ pc' = "failed"
              /\ ~loaded'.ok /\ docs' = <<>> /\ ~db'.built /\ ~qa_chain'.built
              /\ saved' = saved
        /\ (loaded' # loaded /\ loaded'.ok) => ollama = "up"
        /\ (docs' # docs /\ docs' # <<>>) => ollama = "up" /\ loaded.ok
        /\ (db' # db /\ db'.built) =>
              /\ ollama = "up"
              /\ idx = Len(loaded.data)
              /\ db'.docs = docs
        /\ saved' # saved =>
              /\ ollama = "up"
              /\ db.built
              /\ idx = Len(loaded.data)
              /\ Len(db.docs) = Offset(loaded.data, Len(loaded.data))
              /\ saved'.docs = db.docs
      ]_vars

\* The corpus file is well-formed, the service refuses the connection, and
\* the import has ended before get_retriever: nothing is loaded, built or
\* saved.
C16_Witness ==
    /\ pc = "failed"
    /\ ollama = "refused"
    /\ employees.ok
    /\ ~loaded.ok
    /\ ~saved.exists

\* A record satisfies the supplied filters of p: the name contains the name
\* parameter, every listed skill is a skill of the record, the experience is
\* at least the minimum, the availability is the one asked for; texts are
\* compared without regard to case.
Satisfies(emp, p) ==
    /\ Truthy(p.name) =>
          IsSubstring(Lower(p.name[1]), Lower(Chars(emp.name)))
    /\ Truthy(p.skills) =>
          \A k \in 1..Len(skill_list(p.skills[1])) :
              \E j \in 1..Len(emp.skills) :
                  Lower(Chars(emp.skills[j])) = skill_list(p.skills[1])[k]
    /\ p.min_experience # None => emp.experience_years >= p.min_experience[1]
    /\ Truthy(p.availability) =>
          Lower(Chars(emp.availability)) = Lower(p.availability[1])

Matching(emps, p) ==
    LET Test(emp) == Satisfies(emp, p) IN SelectSeq(emps, Test)

\* C17: a search is answered with exactly the records of the corpus that
\* satisfy every supplied filter, in corpus order, with total their number,
\* the whole corpus when no filter is supplied; and the corpus the server
\* holds is the one it loaded.
C17_SearchReturnsMatches ==
    search.asked =>
        /\ search.status = 200
        /\ search.employees = Matching(source.employees, search.params)
        /\ search.total = Len(search.employees)
        /\ search.params = NoParams => search.employees = source.employees
        /\ employees.data = source.employees

====
